---- MODULE Spec2Model ----
(***************************************************************************)
(* Model of eksi-scraper.py: the retrying fetcher (get_soup), the page     *)
(* count resolver (get_page_count), the page extractor (scrape_page) and   *)
(* the orchestrator (main) with its pool of worker threads.                *)
(*                                                                         *)
(* Strings are sequences of one-character strings.  The character "sup2"   *)
(* stands for U+00B2 (superscript two): str.isdigit() accepts it, int()    *)
(* rejects it.                                                             *)
(***************************************************************************)
EXTENDS Integers, Sequences, FiniteSets, TLC

\* ------------------------------------------------------------------ bounds
\* Largest page count the probed document may announce.
MaxPages == 3
\* Largest number of links inside a pagination container.
MaxLinks == 2
\* Largest max_retries argument tried on get_soup called on its own.
MaxRetriesArg == 4
\* Largest number of entry nodes of a page extracted on its own.
MaxEntries == 2

\* ------------------------------------------------------- program constants
\* get_soup(url, scraper, max_retries=3): the default, which every call of
\* the program uses.
max_retries == 3
\* ThreadPoolExecutor(max_workers=2)
max_workers_wider == 2 + 1
max_workers == 2

\* ----------------------------------------------------------------- strings
DecDigits == {"0", "1", "2", "3", "4", "5", "6", "7", "8", "9"}

DigitVal(c) ==
  CASE c = "0" -> 0 [] c = "1" -> 1 [] c = "2" -> 2 [] c = "3" -> 3
    [] c = "4" -> 4 [] c = "5" -> 5 [] c = "6" -> 6 [] c = "7" -> 7
    [] c = "8" -> 8 [] c = "9" -> 9

DigitChar(d) ==
  CASE d = 0 -> "0" [] d = 1 -> "1" [] d = 2 -> "2" [] d = 3 -> "3"
    [] d = 4 -> "4" [] d = 5 -> "5" [] d = 6 -> "6" [] d = 7 -> "7"
    [] d = 8 -> "8" [] d = 9 -> "9"

\* str.strip(): drop leading and trailing whitespace.
RECURSIVE LStrip(_)
LStrip(s) == IF s # <<>> /\ Head(s) = " " THEN LStrip(Tail(s)) ELSE s

RECURSIVE RStrip(_)
RStrip(s) ==
  IF s # <<>> /\ s[Len(s)] = " " THEN RStrip(SubSeq(s, 1, Len(s) - 1)) ELSE s

Strip(s) == RStrip(LStrip(s))

\* str.isdigit(): non-empty and every character is a digit character; the
\* superscript digit counts as one.
isdigit(s) == s # <<>> /\ \A i \in 1..Len(s) : s[i] \in DecDigits \cup {"sup2"}

\* The part of int(s) after whitespace and sign are removed.
IntBody(s) ==
  LET t == Strip(s)
  IN  IF t # <<>> /\ Head(t) \in {"-", "+"} THEN Tail(t) ELSE t

\* int(s) succeeds: optional surrounding whitespace, optional sign, then one
\* or more decimal digits.
IntOk(s) ==
  LET b == IntBody(s)
  IN  b # <<>> /\ \A i \in 1..Len(b) : b[i] \in DecDigits

RECURSIVE DecVal(_)
DecVal(b) ==
  IF b = <<>> THEN 0
  ELSE 10 * DecVal(SubSeq(b, 1, Len(b) - 1)) + DigitVal(b[Len(b)])

\* int(s) for a string on which it succeeds.
IntVal(s) ==
  LET t == Strip(s)
  IN  IF Head(t) = "-" THEN 0 - DecVal(IntBody(s)) ELSE DecVal(IntBody(s))

\* str(n) / f"{n}" for an integer.
RECURSIVE NatToStr(_)
NatToStr(n) ==
  IF n < 10 THEN <<DigitChar(n)>>
  ELSE NatToStr(n \div 10) \o <<DigitChar(n % 10)>>

IntToStr(n) == IF n < 0 THEN <<"-">> \o NatToStr(0 - n) ELSE NatToStr(n)

\* max() of a non-empty set of integers.
Max(S) == CHOOSE m \in S : \A x \in S : x <= m

\* sys.argv[1].split("?")[0]: everything before the first "?".  (The
\* variant leaves the query string in place.)
KeepQuery(s) == s

RECURSIVE SplitFirst(_)
SplitFirst(s) ==
  IF s = <<>> \/ Head(s) = "?" THEN <<>>
  ELSE <<Head(s)>> \o SplitFirst(Tail(s))

\* f"{mainLink}?p={i}"
PageLink(base, i) == base \o <<"?", "p", "=">> \o IntToStr(i)

\* --------------------------------------------------------------- documents
\* A parsed document, as far as the program looks at it: the first
\* div.pager (its data-pagecount attribute and the texts of its <a> links)
\* and the first ul#entry-item-list (its <li> nodes).
NoPager == [present |-> FALSE, hasAttr |-> FALSE, attr |-> <<>>, links |-> <<>>]
NoList == [present |-> FALSE, items |-> <<>>]

\* An entry node: each field is present or absent; raises marks a node on
\* which one of the lookups throws.
Entry(ha, a, hc, c, hd, d, hf, f, r) ==
  [hasAuthor |-> ha, author |-> a, hasContent |-> hc, content |-> c,
   hasDate |-> hd, date |-> d, hasFav |-> hf, fav |-> f, raises |-> r]

FullEntry ==
  Entry(TRUE, <<"u">>, TRUE, <<" ", "x", " ">>, TRUE, <<"d", " ">>,
        TRUE, <<"7">>, FALSE)

\* ----------------------------------------------------------- get_page_count
Returned(n) == [ok |-> TRUE, val |-> n, exc |-> "none"]
Raised(e) == [ok |-> FALSE, val |-> 0, exc |-> e]

\* bool(pager and pager.get("data-pagecount")): the attribute exists and is
\* a non-empty string.
HasPageCount(doc) == doc.pager.present /\ doc.pager.hasAttr /\ doc.pager.attr # <<>>

\* The links that pass the isdigit() filter.
DigitLinks(doc) ==
  {i \in 1..Len(doc.pager.links) : isdigit(doc.pager.links[i])}

\* The value returned on the data-pagecount path.
AttrCountNoAdjust(v) == v
AttrCount(v) == v + 1

\* The test of the entry list on the path without pagination.
HasEntriesAnyList(doc) == doc.list.present
HasEntries(doc) == doc.list.present /\ Len(doc.list.items) > 0

get_page_count(doc) ==
  IF HasPageCount(doc)
  THEN IF IntOk(doc.pager.attr)
       THEN Returned(AttrCount(IntVal(doc.pager.attr)))
       ELSE Raised("ValueError")
  ELSE IF doc.pager.present
  THEN IF \E i \in DigitLinks(doc) : ~IntOk(doc.pager.links[i])
       THEN Raised("ValueError")
       ELSE IF DigitLinks(doc) # {}
            THEN Returned(Max({IntVal(doc.pager.links[i]) : i \in DigitLinks(doc)}))
            ELSE Returned(1)
  ELSE IF HasEntries(doc)
  THEN Returned(1)
  ELSE Raised("ScraperError")

\* ------------------------------------------------- documents that are tried
AttrStrings ==
  {IntToStr(n) : n \in (0 - 1)..(MaxPages - 1)}
    \cup {<<>>, <<"a">>, <<" ", "1">>, <<"sup2">>}

LabelStrings ==
  {IntToStr(n) : n \in {1, 2, MaxPages}}
    \cup {<<>>, <<"a">>, <<" ", "2">>, <<"sup2">>}

LinkLists == UNION {[1..k -> LabelStrings] : k \in 0..MaxLinks}

Pagers ==
  {NoPager}
    \cup {[present |-> TRUE, hasAttr |-> FALSE, attr |-> <<>>, links |-> l] :
            l \in LinkLists}
    \cup {[present |-> TRUE, hasAttr |-> TRUE, attr |-> a, links |-> l] :
            a \in AttrStrings, l \in LinkLists}

Lists ==
  {NoList, [present |-> TRUE, items |-> <<>>],
   [present |-> TRUE, items |-> <<FullEntry>>]}

Docs == {[pager |-> p, list |-> l, broken |-> FALSE] : p \in Pagers, l \in Lists}

PageDocs ==
  {[pager |-> NoPager, list |-> l, broken |-> b] :
     <<l, b>> \in {<<NoList, FALSE>>,
                   <<[present |-> TRUE, items |-> <<FullEntry>>], FALSE>>,
                   <<[present |-> TRUE, items |-> <<FullEntry, FullEntry>>], FALSE>>,
                   <<NoList, TRUE>>}}

\* sys.argv[1:] of the runs that are tried.
ArgLists ==
  {<<>>,
   <<<<"t">>>>,
   <<<<"t", "?", "p", "=", "5">>>>,
   <<<<"t">>, <<"t">>>>}

\* Values drawn for random.uniform(2, 5) and random.uniform(1, 3).
PaceDurations == {2, 5}
StartDurations == {1, 3}

\* ------------------------------------------------------------ scrape_page
\* One record per entry node: defaults for the absent fields, text and date
\* stripped.  (In the variant a node without content also loses its date.)
RecordOfCoupled(e) ==
  <<IF e.hasAuthor THEN e.author ELSE <<"U", "n", "k", "n", "o", "w", "n">>,
    IF e.hasContent THEN Strip(e.content)
    ELSE <<"N", "o", " ", "c", "o", "n", "t", "e", "n", "t">>,
    IF e.hasDate /\ e.hasContent THEN Strip(e.date)
    ELSE <<"N", "o", " ", "d", "a", "t", "e">>,
    IF e.hasFav THEN e.fav ELSE <<"0">>>>

RecordOf(e) ==
  <<IF e.hasAuthor THEN e.author ELSE <<"U", "n", "k", "n", "o", "w", "n">>,
    IF e.hasContent THEN Strip(e.content)
    ELSE <<"N", "o", " ", "c", "o", "n", "t", "e", "n", "t">>,
    IF e.hasDate THEN Strip(e.date) ELSE <<"N", "o", " ", "d", "a", "t", "e">>,
    IF e.hasFav THEN e.fav ELSE <<"0">>>>

\* The loop over the entries: a node that raises is skipped.  (The variant
\* leaves the loop at the first node that raises.)
RECURSIVE ExtractItemsUntilRaise(_)
ExtractItemsUntilRaise(items) ==
  IF items = <<>> \/ Head(items).raises THEN <<>>
  ELSE <<RecordOf(Head(items))>> \o ExtractItemsUntilRaise(Tail(items))

RECURSIVE ExtractItems(_)
ExtractItems(items) ==
  IF items = <<>> THEN <<>>
  ELSE IF Head(items).raises THEN ExtractItems(Tail(items))
  ELSE <<RecordOf(Head(items))>> \o ExtractItems(Tail(items))

\* The number of nodes of the loop that raised.
RECURSIVE CountRaises(_)
CountRaises(items) ==
  IF items = <<>> THEN 0
  ELSE (IF Head(items).raises THEN 1 ELSE 0) + CountRaises(Tail(items))

\* What scrape_page does with a fetched document: the records it returns,
\* whether it ended in its outer except branch, and the warnings it logged.
ScrapePage(d) ==
  IF d.broken
  THEN [recs |-> <<>>, caught |-> TRUE, warnEntry |-> 0, warnNoBlock |-> 0]
  ELSE IF ~d.list.present
  THEN [recs |-> <<>>, caught |-> FALSE, warnEntry |-> 0, warnNoBlock |-> 1]
  ELSE [recs |-> ExtractItems(d.list.items), caught |-> FALSE,
        warnEntry |-> CountRaises(d.list.items), warnNoBlock |-> 0]

\* The entry nodes and pages tried on the extractor alone.
AbsentOr(S) == {[has |-> FALSE, val |-> <<>>]} \cup {[has |-> TRUE, val |-> v] : v \in S}

EntryNodes ==
  {Entry(a.has, a.val, c.has, c.val, d.has, d.val, f.has, f.val, FALSE) :
     a \in AbsentOr({<<"u">>, <<>>}), c \in AbsentOr({<<" ", "x", " ">>}),
     d \in AbsentOr({<<"d", " ">>}), f \in AbsentOr({<<"7">>})}
    \cup {Entry(TRUE, <<"u">>, TRUE, <<"x">>, TRUE, <<"d">>, TRUE, <<"7">>, TRUE)}

ExtractDocs ==
  {[pager |-> NoPager, list |-> NoList, broken |-> b] : b \in BOOLEAN}
    \cup {[pager |-> NoPager, list |-> [present |-> TRUE, items |-> l],
            broken |-> FALSE] :
            l \in UNION {[1..k -> EntryNodes] : k \in 0..MaxEntries}}

\* ----------------------------------------------------------------- logging
LogSites ==
  {"warn_attempt", "err_fetch", "err_pagecount", "warn_noblock", "warn_entry",
   "err_page", "info_found", "err_init", "info_scraped", "err_processing",
   "err_empty", "info_saved"}

ErrorSites == {"err_fetch", "err_pagecount", "err_page", "err_init",
               "err_processing", "err_empty"}

\* Lines are counted per call site and per URL: 0 is the base URL (and the
\* lines of main that name no URL), p is page p.
LogKeys == LogSites \X (0..(MaxPages + 1))

LogN(l, site, u, n) == [l EXCEPT ![<<site, u>>] = @ + n]
Log(l, site, u) == LogN(l, site, u, 1)

\* ---------------------------------------------------------------- get_soup
\* The state of one invocation: the max_retries argument, the loop variable,
\* the position in the loop body, the length of the last sleep, the calls of
\* scraper.get so far and the attempts that failed so far.
GsIdle ==
  [max |-> 0, attempt |-> 0, phase |-> "idle", slept |-> 0, calls |-> 0,
   fails |-> 0]

\* for attempt in range(max_retries): an empty range falls through to
\* return None.
GsStart(m) ==
  [GsIdle EXCEPT !.max = m, !.phase = IF m > 0 THEN "pace" ELSE "none"]

\* if attempt == max_retries - 1
LastAttemptOffByOne(a, m) == a = m
LastAttempt(a, m) == a = m - 1

\* time.sleep(random.uniform(2, 5)).  (The variant paces the first attempt
\* only.)
GsPaceFirstOnly(g, d) ==
  [g EXCEPT !.phase = "get", !.slept = IF g.attempt = 0 THEN d ELSE 0]

GsPace(g, d) == [g EXCEPT !.phase = "get", !.slept = d]

\* scraper.get, raise_for_status or the parser raised: the last attempt
\* re-raises; any other sleeps 2 ** attempt and starts the next round of the
\* loop, which ends (return None) when the range is used up.  (The variants
\* sleep 2 * attempt, and go round again without counting the attempt.)
GsFailLinear(g) ==
  IF LastAttempt(g.attempt, g.max)
  THEN [g EXCEPT !.calls = @ + 1, !.fails = @ + 1, !.phase = "raised",
                 !.slept = 0]
  ELSE [g EXCEPT !.calls = @ + 1, !.fails = @ + 1, !.attempt = @ + 1,
                 !.slept = 2 * g.attempt,
                 !.phase = IF g.attempt + 1 < g.max THEN "pace" ELSE "none"]

GsFailRetryForever(g) ==
  [g EXCEPT !.calls = IF @ <= g.max THEN @ + 1 ELSE @,
            !.fails = IF @ <= g.max THEN @ + 1 ELSE @,
            !.slept = 1, !.phase = "pace"]

GsFail(g) ==
  IF LastAttempt(g.attempt, g.max)
  THEN [g EXCEPT !.calls = @ + 1, !.fails = @ + 1, !.phase = "raised",
                 !.slept = 0]
  ELSE [g EXCEPT !.calls = @ + 1, !.fails = @ + 1, !.attempt = @ + 1,
                 !.slept = 2 ^ g.attempt,
                 !.phase = IF g.attempt + 1 < g.max THEN "pace" ELSE "none"]

\* The lines get_soup logs when the attempt of invocation g for URL u fails:
\* the warning, and on the last attempt the error.  (The variant logs
\* nothing.)  A successful attempt logs nothing.
GsFailLogQuiet(l, g, u) == l

GsFailLog(l, g, u) ==
  IF LastAttempt(g.attempt, g.max)
  THEN Log(Log(l, "warn_attempt", u), "err_fetch", u)
  ELSE Log(l, "warn_attempt", u)

\* return BeautifulSoup(response.text, "html.parser")
GsOk(g) == [g EXCEPT !.calls = @ + 1, !.phase = "returned", !.slept = 0]

\* ------------------------------------------------------------------- state
VARIABLES
  args,         \* sys.argv[1:]
  pc,           \* position of the main thread
  mainLink,     \* the URL without its query string
  probe,        \* the get_soup invocation of the initial fetch
  pageCount,    \* the resolved page count
  page_links,   \* the page URLs
  futures,      \* future_to_url, in submission order
  all_entries,  \* the merged records
  log,          \* log lines emitted, per call site and URL
  exitStatus,   \* -1 while running
  output,       \* entries.csv
  fnDoc, fnOut, \* argument and result of a direct call of get_page_count
  fnUrl, fnGs,  \* argument and state of a direct call of get_soup
  fnSoup,       \* the document that call returned
  fnPage        \* what scrape_page made of fnDoc

runVars == <<args, pc, mainLink, probe, pageCount, page_links, futures,
             all_entries, log, exitStatus, output>>
fnVars == <<fnDoc, fnOut, fnUrl, fnGs, fnSoup, fnPage>>
vars == <<args, pc, mainLink, probe, pageCount, page_links, futures,
          all_entries, log, exitStatus, output, fnDoc, fnOut, fnUrl, fnGs,
          fnSoup, fnPage>>

NotCalled == [ok |-> FALSE, val |-> 0, exc |-> "notcalled"]
NoOutput == [written |-> FALSE, rows |-> <<>>]

RunInit ==
  /\ args \in ArgLists
  /\ pc = "start"
  /\ mainLink = <<>>
  /\ probe = GsIdle
  /\ pageCount = 0
  /\ page_links = <<>>
  /\ futures = <<>>
  /\ all_entries = <<>>
  /\ log = [k \in LogKeys |-> 0]
  /\ exitStatus = 0 - 1
  /\ output = NoOutput

NoDoc == [pager |-> NoPager, list |-> NoList, broken |-> FALSE]

\* What a call of get_soup has handed to its caller: nothing, or a document.
NoSoup == [some |-> FALSE, doc |-> NoDoc]
Soup(d) == [some |-> TRUE, doc |-> d]

NotScraped ==
  [recs |-> <<>>, caught |-> FALSE, warnEntry |-> 0 - 1, warnNoBlock |-> 0 - 1]

FnInit ==
  /\ fnDoc = NoDoc
  /\ fnOut = NotCalled
  /\ fnUrl = <<>>
  /\ fnGs = GsIdle
  /\ fnSoup = NoSoup
  /\ fnPage = NotScraped

Init == RunInit /\ FnInit

\* sys.exit(1)
\* (The variant logs and goes on.)
Exit1Continue(l) ==
  /\ log' = l
  /\ UNCHANGED <<pc, exitStatus>>

Exit1(l) ==
  /\ log' = l
  /\ pc' = "exit"
  /\ exitStatus' = 1

\* -------------------------------------------------------------------- main
\* The arity check, the query string removal and the first sleep.
MainStart ==
  /\ pc = "start"
  /\ IF Len(args) # 1
     THEN /\ Exit1(log)
          /\ UNCHANGED <<mainLink, probe>>
     ELSE /\ \E d \in StartDurations :
               probe' = [GsStart(max_retries) EXCEPT !.slept = d]
          /\ mainLink' = SplitFirst(args[1])
          /\ pc' = "probe"
          /\ UNCHANGED <<log, exitStatus>>
  /\ UNCHANGED <<args, pageCount, page_links, futures, all_entries, output,
                 fnVars>>

ProbePace ==
  /\ pc = "probe" /\ probe.phase = "pace"
  /\ \E d \in PaceDurations : probe' = GsPace(probe, d)
  /\ UNCHANGED <<args, pc, mainLink, pageCount, page_links, futures,
                 all_entries, log, exitStatus, output, fnVars>>

\* An attempt of the initial fetch fails; the last one ends the run.
ProbeGetFail ==
  /\ pc = "probe" /\ probe.phase = "get"
  /\ probe' = GsFail(probe)
  /\ IF probe'.phase = "raised"
     THEN Exit1(Log(GsFailLog(log, probe, 0), "err_init", 0))
     ELSE IF probe'.phase = "none"
     THEN \* get_page_count(None) raises inside its try block
          Exit1(Log(Log(GsFailLog(log, probe, 0), "err_pagecount", 0),
                    "err_init", 0))
     ELSE /\ log' = GsFailLog(log, probe, 0)
          /\ UNCHANGED <<pc, exitStatus>>
  /\ UNCHANGED <<args, mainLink, pageCount, page_links, futures, all_entries,
                 output, fnVars>>

\* The initial fetch succeeds; the page count is resolved and the page URLs
\* are built, or the run ends.
ProbeGetOk ==
  /\ pc = "probe" /\ probe.phase = "get"
  /\ probe' = GsOk(probe)
  /\ \E d \in Docs :
       LET r == get_page_count(d)
       IN  /\ r.ok => r.val <= MaxPages
           /\ IF r.ok
              THEN /\ pageCount' = r.val
                   /\ page_links' = [i \in 1..r.val |-> PageLink(mainLink, i)]
                   /\ log' = Log(log, "info_found", 0)
                   /\ pc' = IF r.val >= 1 THEN "submit" ELSE "collect"
                   /\ UNCHANGED exitStatus
              ELSE /\ Exit1(Log(Log(log, "err_pagecount", 0), "err_init", 0))
                   /\ UNCHANGED <<pageCount, page_links>>
  /\ UNCHANGED <<args, mainLink, futures, all_entries, output, fnVars>>

\* executor.submit(scrape_page, url, scraper) for the next URL of page_links.
\* url is the value of future_to_url; extracted counts the records the task
\* appended to page_entries, merged the records main took from its result,
\* exc whether the task ended by raising instead of returning.
NewFuture(u) ==
  [url |-> u, st |-> "pending", gs |-> GsIdle, result |-> <<>>, exc |-> FALSE,
   extracted |-> 0, yielded |-> FALSE, merged |-> 0]

Submit ==
  /\ pc = "submit"
  /\ Len(futures) < Len(page_links)
  /\ futures' = Append(futures, NewFuture(page_links[Len(futures) + 1]))
  /\ pc' = IF Len(futures') = Len(page_links) THEN "collect" ELSE "submit"
  /\ UNCHANGED <<args, mainLink, probe, pageCount, page_links, all_entries,
                 log, exitStatus, output, fnVars>>

\* ----------------------------------------------------------- worker threads
Running == {p \in 1..Len(futures) : futures[p].st = "running"}

\* A free worker thread takes the oldest waiting task.
TaskStart(p) ==
  /\ futures[p].st = "pending"
  /\ \A q \in 1..(p - 1) : futures[q].st # "pending"
  /\ Cardinality(Running) < max_workers
  /\ futures' = [futures EXCEPT ![p].st = "running", ![p].gs = GsStart(max_retries)]
  /\ UNCHANGED <<args, pc, mainLink, probe, pageCount, page_links,
                 all_entries, log, exitStatus, output, fnVars>>

TaskPace(p) ==
  /\ futures[p].st = "running" /\ futures[p].gs.phase = "pace"
  /\ \E d \in PaceDurations :
       futures' = [futures EXCEPT ![p].gs = GsPace(@, d)]
  /\ UNCHANGED <<args, pc, mainLink, probe, pageCount, page_links,
                 all_entries, log, exitStatus, output, fnVars>>

\* except Exception in scrape_page: the error is logged, [] is returned.
ScrapeCaughtSilent(l, p) == l
ScrapeCaught(l, p) == Log(l, "err_page", p)

\* scrape_page returns: the invocation of get_soup is over.  (In the variant
\* an error of the fetch leaves the task unfinished.)
TaskDoneUnlessRaised(f, g, recs, n) ==
  IF g.phase = "raised" THEN [f EXCEPT !.gs = g]
  ELSE [f EXCEPT !.st = "done", !.gs = g, !.result = recs, !.extracted = n]

\* (In this variant a fetch error leaves scrape_page and ends the task.)
TaskDonePropagates(f, g, recs, n) ==
  [f EXCEPT !.st = "done", !.gs = g, !.result = recs, !.extracted = n,
            !.exc = (g.phase = "raised")]

TaskDone(f, g, recs, n) ==
  [f EXCEPT !.st = "done", !.gs = g, !.result = recs, !.extracted = n]

\* An attempt of a page fetch fails; after the last one scrape_page catches
\* the error and returns [].
TaskGetFail(p) ==
  /\ futures[p].st = "running" /\ futures[p].gs.phase = "get"
  /\ LET g == GsFail(futures[p].gs)
     IN  IF g.phase = "raised"
         THEN /\ futures' = [futures EXCEPT ![p] = TaskDone(@, g, <<>>, 0)]
              /\ log' = ScrapeCaught(GsFailLog(log, futures[p].gs, p), p)
         ELSE IF g.phase = "none"
         THEN \* soup is None: soup.find raises, scrape_page returns []
              /\ futures' = [futures EXCEPT ![p] = TaskDone(@, g, <<>>, 0)]
              /\ log' = ScrapeCaught(GsFailLog(log, futures[p].gs, p), p)
         ELSE /\ futures' = [futures EXCEPT ![p].gs = g]
              /\ log' = GsFailLog(log, futures[p].gs, p)
  /\ UNCHANGED <<args, pc, mainLink, probe, pageCount, page_links,
                 all_entries, exitStatus, output, fnVars>>

\* The page fetch succeeds and the page is extracted.
TaskGetOk(p) ==
  /\ futures[p].st = "running" /\ futures[p].gs.phase = "get"
  /\ \E d \in PageDocs :
       LET g == GsOk(futures[p].gs)
           recs == ExtractItems(d.list.items)
       IN  IF d.broken
           THEN /\ futures' = [futures EXCEPT ![p] = TaskDone(@, g, <<>>, 0)]
                /\ log' = ScrapeCaught(log, p)
           ELSE IF ~d.list.present
           THEN /\ futures' = [futures EXCEPT ![p] = TaskDone(@, g, <<>>, 0)]
                /\ log' = Log(log, "warn_noblock", p)
           ELSE /\ futures' = [futures EXCEPT ![p] = TaskDone(@, g, recs, Len(recs))]
                /\ log' = LogN(log, "warn_entry", p, CountRaises(d.list.items))
  /\ UNCHANGED <<args, pc, mainLink, probe, pageCount, page_links,
                 all_entries, exitStatus, output, fnVars>>

\* ------------------------------------------------------------- collection
\* all_entries.extend(data)
RECURSIVE DropKnown(_, _)
DropKnown(all, data) ==
  IF data = <<>> THEN <<>>
  ELSE IF \E i \in 1..Len(all) : all[i] = Head(data)
       THEN DropKnown(all, Tail(data))
       ELSE <<Head(data)>> \o DropKnown(Append(all, Head(data)), Tail(data))

ExtendUnique(all, data) == all \o DropKnown(all, data)
Extend(all, data) == all \o data

\* What as_completed waits for.  (The variant hands out running tasks too.)
CompletedOrRunning(f) == f.st \in {"done", "running"}
Completed(f) == f.st = "done"

\* as_completed yields a finished task; future.result() returns its records,
\* which are merged, or raises what the task raised.
Collect(p) ==
  /\ pc = "collect"
  /\ Completed(futures[p]) /\ ~futures[p].yielded
  /\ IF futures[p].exc
     THEN /\ log' = Log(log, "err_processing", p)
          /\ UNCHANGED all_entries
     ELSE /\ all_entries' = Extend(all_entries, futures[p].result)
          /\ log' = Log(log, "info_scraped", p)
  /\ futures' = [futures EXCEPT ![p].yielded = TRUE,
                                ![p].merged = Len(all_entries') - Len(all_entries)]
  /\ UNCHANGED <<args, pc, mainLink, probe, pageCount, page_links,
                 exitStatus, output, fnVars>>

\* if not all_entries
NoEntriesOffByOne(all) == Len(all) < 2
NoEntries(all) == all = <<>>

\* The pool is shut down; the table is written, or the run fails when no
\* record was collected.
Finish ==
  /\ pc = "collect"
  /\ \A p \in 1..Len(futures) : futures[p].yielded
  /\ IF NoEntries(all_entries)
     THEN /\ Exit1(Log(log, "err_empty", 0))
          /\ UNCHANGED output
     ELSE /\ output' = [written |-> TRUE, rows |-> all_entries]
          /\ log' = Log(log, "info_saved", 0)
          /\ pc' = "exit"
          /\ exitStatus' = 0
  /\ UNCHANGED <<args, mainLink, probe, pageCount, page_links, futures,
                 all_entries, fnVars>>

Next ==
  \/ MainStart
  \/ ProbePace
  \/ ProbeGetFail
  \/ ProbeGetOk
  \/ Submit
  \/ \E p \in 1..Len(futures) : TaskStart(p)
  \/ \E p \in 1..Len(futures) : TaskPace(p)
  \/ \E p \in 1..Len(futures) : TaskGetFail(p)
  \/ \E p \in 1..Len(futures) : TaskGetOk(p)
  \/ \E p \in 1..Len(futures) : Collect(p)
  \/ Finish

Spec == Init /\ [][Next]_vars

\* Every thread that can take a step eventually takes one: sleeps end, the
\* fetch client answers or fails, the pool runs its threads.
FairInit == Init /\ args = <<<<"t", "?", "p", "=", "5">>>>

FairSpec == FairInit /\ [][Next]_vars /\ WF_vars(Next)

\* ---------------------------------------- get_page_count on its own
PCInit ==
  /\ RunInit
  /\ args = <<<<"t">>>>
  /\ fnDoc \in Docs
  /\ fnOut = NotCalled
  /\ fnUrl = <<>> /\ fnGs = GsIdle /\ fnSoup = NoSoup /\ fnPage = NotScraped

CallPageCount ==
  /\ fnOut = NotCalled
  /\ fnOut' = get_page_count(fnDoc)
  /\ UNCHANGED <<fnDoc, fnUrl, fnGs, fnSoup, fnPage>>
  /\ UNCHANGED runVars

PCNext == CallPageCount

SpecPageCount == PCInit /\ [][PCNext]_vars

\* ------------------------------------------------------ get_soup on its own
FetchUrls == {<<"t">>, <<"t", "?", "p", "=", "1">>}

FetchInit ==
  /\ RunInit
  /\ args = <<<<"t">>>>
  /\ fnDoc = NoDoc /\ fnOut = NotCalled
  /\ fnUrl \in FetchUrls
  /\ \E m \in 1..MaxRetriesArg : fnGs = GsStart(m)
  /\ fnSoup = NoSoup /\ fnPage = NotScraped

FetchPace ==
  /\ fnGs.phase = "pace"
  /\ \E d \in PaceDurations : fnGs' = GsPace(fnGs, d)
  /\ UNCHANGED <<fnDoc, fnOut, fnUrl, fnSoup, fnPage>>
  /\ UNCHANGED runVars

FetchFail ==
  /\ fnGs.phase = "get"
  /\ fnGs' = GsFail(fnGs)
  /\ log' = GsFailLog(log, fnGs, 0)
  /\ UNCHANGED <<fnDoc, fnOut, fnUrl, fnSoup, fnPage>>
  /\ UNCHANGED <<args, pc, mainLink, probe, pageCount, page_links, futures,
                 all_entries, exitStatus, output>>

FetchOk ==
  /\ fnGs.phase = "get"
  /\ fnGs' = GsOk(fnGs)
  /\ \E d \in PageDocs : fnSoup' = Soup(d)
  /\ UNCHANGED <<fnDoc, fnOut, fnUrl, fnPage>>
  /\ UNCHANGED runVars

FetchNext == FetchPace \/ FetchFail \/ FetchOk

SpecFetch == FetchInit /\ [][FetchNext]_vars

\* ----------------------------------------- the page extractor on its own
ExtractInit ==
  /\ RunInit
  /\ args = <<<<"t">>>>
  /\ fnDoc \in ExtractDocs
  /\ fnOut = NotCalled
  /\ fnUrl = <<>> /\ fnGs = GsIdle /\ fnSoup = NoSoup /\ fnPage = NotScraped

CallScrapePage ==
  /\ fnPage = NotScraped
  /\ fnPage' = ScrapePage(fnDoc)
  /\ UNCHANGED <<fnDoc, fnOut, fnUrl, fnGs, fnSoup>>
  /\ UNCHANGED runVars

ExtractNext == CallScrapePage

SpecExtract == ExtractInit /\ [][ExtractNext]_vars

\* ------------------------------------------------------ names for the claims
Pages == 1..Len(futures)

\* The initial fetch and the page count resolution both succeeded.
ProbeSucceeded == log[<<"info_found", 0>>] > 0

\* The initial fetch used up its retries, or the page count resolution raised.
ProbeFailed == probe.phase = "raised" \/ log[<<"err_pagecount", 0>>] > 0

\* Page p's fetch failed on every attempt.
FetchFailed(p) == futures[p].st = "done" /\ futures[p].gs.phase = "raised"

\* Page p's task ended in the except branch of scrape_page.
HardFailed(p) == futures[p].st = "done" /\ log[<<"err_page", p>>] > 0

AllSubmitted == Len(futures) = Len(page_links)
AllCollected == AllSubmitted /\ \A p \in Pages : futures[p].yielded

RECURSIVE SumExtracted(_)
SumExtracted(S) ==
  IF S = {} THEN 0
  ELSE LET p == CHOOSE x \in S : TRUE
       IN  futures[p].extracted + SumExtracted(S \ {p})

\* ERROR lines that name page p.
ErrorLines(p) ==
  log[<<"err_fetch", p>>] + log[<<"err_page", p>>] + log[<<"err_processing", p>>]

IsPrefix(a, b) == Len(a) <= Len(b) /\ SubSeq(b, 1, Len(a)) = a

\* a is a contiguous part of b.
IsInfix(a, b) ==
  \E k \in 0..(Len(b) - Len(a)) : SubSeq(b, k + 1, k + Len(a)) = a

\* The characters of s that are not blanks, in order.
IsNotBlank(c) == c # " "
NonBlanks(s) == SelectSeq(s, IsNotBlank)

\* ---------------------------------------------------------------------- C1
\* C1: when the initial probe succeeds with page count P, every one of the P
\* page tasks is eventually run to completion and collected, whatever pages
\* fail, and a page whose task failed adds no record to all_entries.
C1_FailuresIsolated ==
  /\ [](\A p \in Pages :
          (HardFailed(p) /\ futures[p].yielded) => futures[p].merged = 0)
  /\ (ProbeSucceeded ~>
        (/\ Len(futures) = (IF pageCount > 0 THEN pageCount ELSE 0)
         /\ \A p \in Pages : futures[p].st = "done" /\ futures[p].yielded))

C1_Witness ==
  /\ pc = "exit" /\ pageCount = 3 /\ AllCollected
  /\ FetchFailed(1) /\ HardFailed(2) /\ ~FetchFailed(2)
  /\ futures[3].merged = 2

\* ---------------------------------------------------------------------- C2
\* C2: once every page task is collected, all_entries holds as many records
\* as the pages that did not hard-fail extracted, duplicates included; and
\* every step leaves the records already in all_entries in place.
C2_CountAndAppendOnly ==
  /\ []((ProbeSucceeded /\ AllCollected) =>
          Len(all_entries) = SumExtracted({p \in Pages : ~HardFailed(p)}))
  /\ [][IsPrefix(all_entries, all_entries')]_vars

C2_Witness ==
  /\ AllCollected /\ pageCount = 3
  /\ Len(all_entries) = 4
  /\ all_entries[1] = all_entries[2] /\ all_entries[3] = all_entries[4]
  /\ \E p \in Pages : HardFailed(p)

\* ---------------------------------------------------------------------- C3
\* C3: never more than 2 page tasks are running at the same time.
C3_AtMostTwoRunning == Cardinality(Running) <= 2

C3_Witness ==
  /\ Cardinality(Running) = 2
  /\ \E p \in Pages : futures[p].st = "pending"

\* ---------------------------------------------------------------------- C4
\* C4: an invocation of get_soup calls scraper.get at most max_retries times,
\* returns the document at the first attempt that succeeds and makes no
\* attempt after it, and raises, returning no document, when max_retries
\* attempts have failed.
GsBounded(g) ==
  /\ g.calls <= g.max
  /\ g.phase # "none"
  /\ g.phase = "returned" => g.calls = g.fails + 1
  /\ g.phase = "raised" <=> g.fails = g.max
  /\ g.phase = "raised" => g.calls = g.max

C4_BoundedAttempts ==
  /\ [](/\ GsBounded(fnGs)
        /\ fnGs.phase = "returned" <=> fnSoup.some)
  /\ [][fnGs.phase \in {"returned", "raised"} => fnGs' = fnGs]_vars

C4_Witness ==
  /\ fnGs.max = 3 /\ fnGs.phase = "returned"
  /\ fnGs.fails = 2 /\ fnGs.calls = 3
  /\ fnSoup.some /\ fnSoup.doc.list.present

\* ---------------------------------------------------------------------- C5
\* C5: a run with one argument exits with status 1 exactly when the probe
\* failed or all_entries is empty after every page task was collected; any
\* other run ends with status 0 and the table written from all_entries.
C5_ExitStatus ==
  Len(args) = 1 =>
    /\ pc = "exit" =>
         /\ exitStatus = 1 <=>
              (ProbeFailed \/ (ProbeSucceeded /\ AllCollected /\ all_entries = <<>>))
         /\ exitStatus # 1 =>
              /\ exitStatus = 0
              /\ AllCollected
              /\ output = [written |-> TRUE, rows |-> all_entries]
              /\ Len(output.rows) = SumExtracted({p \in Pages : ~HardFailed(p)})
    /\ pc # "exit" => exitStatus = 0 - 1 /\ ~output.written
    /\ exitStatus = 1 => ~output.written

C5_Witness ==
  /\ Len(args) = 1 /\ pc = "exit" /\ exitStatus = 0
  /\ \E p \in Pages : FetchFailed(p)
  /\ \E p \in Pages : futures[p].extracted > 0

\* ---------------------------------------------------------------------- C6
\* C6: the URLs submitted are base?p=1 .. base?p=P, one task each, where base
\* is the argument up to its first "?"; page 1 is fetched again by its own
\* task.
IsBaseOf(b, u) ==
  /\ IsPrefix(b, u)
  /\ \A i \in 1..Len(b) : b[i] # "?"
  /\ Len(b) < Len(u) => u[Len(b) + 1] = "?"

C6_PageUrls ==
  (ProbeSucceeded /\ pc \in {"collect", "exit"}) =>
    /\ IsBaseOf(mainLink, args[1])
    /\ Len(futures) = (IF pageCount > 0 THEN pageCount ELSE 0)
    /\ \A i \in Pages :
         /\ futures[i].url = mainLink \o <<"?", "p", "=", DigitChar(i)>>
         /\ futures[i].st = "done" => futures[i].gs.calls >= 1
    /\ \A i, j \in Pages : futures[i].url = futures[j].url => i = j

C6_Witness ==
  /\ args = <<<<"t", "?", "p", "=", "5">>>>
  /\ pc = "exit" /\ pageCount = 3
  /\ futures[1].url = <<"t", "?", "p", "=", "1">>
  /\ futures[3].url = <<"t", "?", "p", "=", "3">>
  /\ futures[1].gs.calls = 2

\* ---------------------------------------------------------------------- C7
\* C7: a document whose pagination container carries the page count
\* attribute N makes get_page_count return N + 1, whatever links and entry
\* list it has.
C7_AttributePlusOne ==
  \A n \in 0..(MaxPages - 1) :
    (/\ fnOut # NotCalled
     /\ fnDoc.pager.present /\ fnDoc.pager.hasAttr
     /\ fnDoc.pager.attr = IntToStr(n))
      => fnOut = Returned(n + 1)

C7_Witness ==
  /\ fnDoc.pager.present /\ fnDoc.pager.hasAttr
  /\ fnDoc.pager.attr = <<"2">>
  /\ fnDoc.pager.links = <<<<"1">>, <<"2">>>>
  /\ fnDoc.list.present /\ fnDoc.list.items # <<>>
  /\ fnOut = Returned(3)

\* ---------------------------------------------------------------------- C8
\* C8: a document whose pagination container has no page count attribute
\* makes get_page_count return the largest numeric link label, or 1 when no
\* label is numeric.
IsNumeral(s) == s # <<>> /\ \A i \in 1..Len(s) : s[i] \in DecDigits

NumeralLinks(doc) ==
  {DecVal(doc.pager.links[i]) :
     i \in {j \in 1..Len(doc.pager.links) : IsNumeral(doc.pager.links[j])}}

C8_MaxOfNumericLinks ==
  (fnOut # NotCalled /\ fnDoc.pager.present /\ ~fnDoc.pager.hasAttr) =>
    fnOut = Returned(IF NumeralLinks(fnDoc) # {}
                     THEN Max(NumeralLinks(fnDoc)) ELSE 1)

\* ---------------------------------------------------------------------- C9
\* C9: without a pagination container get_page_count returns 1 when the
\* entry list exists and has an entry, and raises ScraperError otherwise.
C9_NoPagination ==
  (fnOut # NotCalled /\ ~fnDoc.pager.present) =>
    fnOut = (IF fnDoc.list.present /\ Len(fnDoc.list.items) >= 1
             THEN Returned(1) ELSE Raised("ScraperError"))

C9_Witness ==
  /\ ~fnDoc.pager.present
  /\ fnDoc.list.present /\ fnDoc.list.items = <<>>
  /\ fnOut = Raised("ScraperError")

\* --------------------------------------------------------------------- C10
\* The runs of the scenario: the probe succeeded, every page was collected,
\* some page's fetch failed on every attempt, every other page was fetched
\* and extracted, and at least one record was extracted.
PartialFailureRun ==
  /\ pc = "exit" /\ ProbeSucceeded /\ AllCollected
  /\ \E p \in Pages : FetchFailed(p)
  /\ \A p \in Pages : FetchFailed(p) \/ ~HardFailed(p)
  /\ SumExtracted({p \in Pages : ~FetchFailed(p)}) > 0

RunSucceededWithRecords ==
  /\ exitStatus = 0
  /\ output = [written |-> TRUE, rows |-> all_entries]
  /\ Len(all_entries) = SumExtracted({p \in Pages : ~FetchFailed(p)})
  /\ \A p \in Pages : futures[p].merged = Len(futures[p].result)

\* C10 as claimed: such a run succeeds with the records of the successful
\* pages and one ERROR line for each failed page.
C10_OneErrorPerFailedPage ==
  PartialFailureRun =>
    /\ RunSucceededWithRecords
    /\ \A p \in Pages : ErrorLines(p) = (IF FetchFailed(p) THEN 1 ELSE 0)

\* C10 as amended: such a run succeeds with the records of the successful
\* pages and two ERROR lines for each failed page, one of get_soup and one
\* of scrape_page, and no other ERROR line.
C10_TwoErrorsPerFailedPage ==
  PartialFailureRun =>
    /\ RunSucceededWithRecords
    /\ \A p \in Pages :
         /\ FetchFailed(p) =>
              log[<<"err_fetch", p>>] = 1 /\ log[<<"err_page", p>>] = 1
         /\ ErrorLines(p) = (IF FetchFailed(p) THEN 2 ELSE 0)
    /\ \A s \in ErrorSites : log[<<s, 0>>] = 0

C10_Witness ==
  /\ PartialFailureRun /\ pageCount = 3
  /\ FetchFailed(2) /\ ~FetchFailed(1) /\ ~FetchFailed(3)
  /\ futures[1].extracted = 2 /\ futures[3].extracted = 1
  /\ Len(all_entries) = 3

\* --------------------------------------------------------------------- C11
\* C11: each field of an extracted record takes its default exactly when its
\* own source is absent, whatever the other three are; a field that is
\* present is taken as it is, text and date without surrounding blanks.
Extracted == fnPage # NotScraped /\ fnDoc.list.present /\ ~fnDoc.broken

GoodIndexes(items) == {i \in 1..Len(items) : ~items[i].raises}

\* The position of entry i among the entries that did not raise.
RankOf(items, i) == Cardinality({j \in GoodIndexes(items) : j <= i})

C11_IndependentDefaults ==
  Extracted =>
    \A i \in GoodIndexes(fnDoc.list.items) :
        LET e == fnDoc.list.items[i]
            r == fnPage.recs[RankOf(fnDoc.list.items, i)]
        IN  /\ r[1] = (IF e.hasAuthor THEN e.author
                       ELSE <<"U", "n", "k", "n", "o", "w", "n">>)
            /\ ~e.hasContent =>
                 r[2] = <<"N", "o", " ", "c", "o", "n", "t", "e", "n", "t">>
            /\ e.hasContent =>
                 /\ IsInfix(r[2], e.content)
                 /\ r[2] # <<>> => r[2][1] # " " /\ r[2][Len(r[2])] # " "
                 /\ NonBlanks(r[2]) = NonBlanks(e.content)
            /\ ~e.hasDate => r[3] = <<"N", "o", " ", "d", "a", "t", "e">>
            /\ e.hasDate =>
                 /\ IsInfix(r[3], e.date)
                 /\ r[3] # <<>> => r[3][1] # " " /\ r[3][Len(r[3])] # " "
                 /\ NonBlanks(r[3]) = NonBlanks(e.date)
            /\ r[4] = (IF e.hasFav THEN e.fav ELSE <<"0">>)

C11_Witness ==
  /\ Extracted /\ Len(fnDoc.list.items) = 2
  /\ ~fnDoc.list.items[1].hasAuthor /\ fnDoc.list.items[1].hasContent
  /\ fnDoc.list.items[1].hasDate /\ ~fnDoc.list.items[1].hasFav
  /\ fnPage.recs[1] =
       <<<<"U", "n", "k", "n", "o", "w", "n">>, <<"x">>, <<"d">>, <<"0">>>>
  /\ ~fnDoc.list.items[2].hasContent /\ fnDoc.list.items[2].hasDate
  /\ fnPage.recs[2][3] = <<"d">>

\* --------------------------------------------------------------------- C17
\* C17: the page's list holds one record for every entry whose extraction
\* did not raise, in document order, the entries after a failing one
\* included, and a failing entry does not make the page fail.
C17_SkipOnlyFailingEntry ==
  Extracted =>
    /\ ~fnPage.caught
    /\ Len(fnPage.recs) = Cardinality(GoodIndexes(fnDoc.list.items))
    /\ \A i \in GoodIndexes(fnDoc.list.items) :
         /\ fnPage.recs[RankOf(fnDoc.list.items, i)][1] =
              (IF fnDoc.list.items[i].hasAuthor THEN fnDoc.list.items[i].author
               ELSE <<"U", "n", "k", "n", "o", "w", "n">>)
         /\ fnPage.recs[RankOf(fnDoc.list.items, i)][4] =
              (IF fnDoc.list.items[i].hasFav THEN fnDoc.list.items[i].fav
               ELSE <<"0">>)
    /\ fnPage.warnEntry = Len(fnDoc.list.items) - Len(fnPage.recs)

C17_Witness ==
  /\ Extracted /\ Len(fnDoc.list.items) = 2
  /\ fnDoc.list.items[1].raises /\ ~fnDoc.list.items[2].raises
  /\ ~fnDoc.list.items[2].hasAuthor
  /\ Len(fnPage.recs) = 1
  /\ fnPage.recs[1][1] = <<"U", "n", "k", "n", "o", "w", "n">>
  /\ ~fnPage.caught

\* --------------------------------------------------------------------- C12
\* C12: a failed attempt a of get_soup that is not the last one is followed
\* by a backoff sleep of exactly 2^a seconds (1, 2, 4, ...) and the next
\* attempt; the failure of the last attempt is followed by no sleep, the
\* error is propagated at once.
RECURSIVE BackoffSeconds(_)
BackoffSeconds(a) == IF a = 0 THEN 1 ELSE BackoffSeconds(a - 1) + BackoffSeconds(a - 1)

C12_BackoffDoubles ==
  [][(fnGs.phase = "get" /\ fnGs'.fails = fnGs.fails + 1) =>
        IF fnGs.attempt + 1 < fnGs.max
        THEN /\ fnGs'.slept = BackoffSeconds(fnGs.attempt)
             /\ fnGs.attempt = 0 => fnGs'.slept = 1
             /\ fnGs.attempt = 1 => fnGs'.slept = 2
             /\ fnGs.attempt = 2 => fnGs'.slept = 4
             /\ fnGs'.attempt = fnGs.attempt + 1
             /\ fnGs'.phase = "pace"
        ELSE /\ fnGs'.slept = 0
             /\ fnGs'.attempt = fnGs.attempt
             /\ fnGs'.phase = "raised"]_vars

C12_Witness ==
  /\ fnGs.max = 4 /\ fnGs.fails = 3 /\ fnGs.attempt = 3
  /\ fnGs.slept = 4 /\ fnGs.phase = "pace"

\* --------------------------------------------------------------------- C13
\* C13: every call of scraper.get, the first attempt and every retry, in the
\* initial fetch and in every page task, directly follows a pacing sleep of
\* 2 to 5 seconds made in the same invocation for that call alone, and the
\* possible lengths of that sleep are the same at every attempt.
PacedGet(g, h) ==
  h.calls # g.calls =>
    /\ h.calls = g.calls + 1
    /\ g.phase = "get" /\ g.slept >= 2 /\ g.slept <= 5
    /\ h.phase # "get"

PacedOnce(g, h) ==
  (h.phase = "get" /\ g.phase # "get") => (g.phase = "pace" /\ h.calls = g.calls)

C13_PacingBeforeEveryGet ==
  [][/\ PacedGet(probe, probe') /\ PacedOnce(probe, probe')
     /\ probe.phase = "pace" =>
          \A d \in {2, 5} : ENABLED (ProbePace /\ probe'.slept = d)
     /\ \A p \in DOMAIN futures :
          /\ p \in DOMAIN futures'
          /\ PacedGet(futures[p].gs, futures'[p].gs)
          /\ PacedOnce(futures[p].gs, futures'[p].gs)
          /\ futures[p].gs.phase = "pace" =>
               \A d \in {2, 5} :
                 ENABLED (TaskPace(p) /\ futures'[p].gs.slept = d)]_vars

C13_Witness ==
  /\ probe.calls = 2 /\ probe.phase = "returned"
  /\ \E p \in DOMAIN futures :
       /\ futures[p].gs.attempt = 2 /\ futures[p].gs.calls = 2
       /\ futures[p].gs.phase = "get" /\ futures[p].gs.slept = 5

\* --------------------------------------------------------------------- C18
\* C18 as stated: an invocation of get_soup that has made k attempts has
\* logged k lines, one for every attempt, the successful one included.
GetSoupLines == log[<<"warn_attempt", 0>>] + log[<<"err_fetch", 0>>]

C18_OneLinePerAttempt == GetSoupLines = fnGs.calls

\* C18 as the code has it: get_soup logs one warning for every failed
\* attempt, one error more when the last attempt fails, and nothing for a
\* successful attempt.
C18_OneWarningPerFailure ==
  /\ log[<<"warn_attempt", 0>>] = fnGs.fails
  /\ log[<<"err_fetch", 0>>] = (IF fnGs.phase = "raised" THEN 1 ELSE 0)
  /\ fnGs.phase = "returned" => GetSoupLines = fnGs.calls - 1
  /\ fnGs.phase = "raised" => GetSoupLines = fnGs.calls + 1

C18_Witness ==
  /\ fnGs.phase = "returned" /\ fnGs.calls = 3 /\ fnGs.fails = 2
  /\ log[<<"warn_attempt", 0>>] = 2 /\ log[<<"err_fetch", 0>>] = 0

\* --------------------------------------------------------------------- C14
\* C14: no page task is submitted before the initial fetch has returned and
\* the page count has been resolved; when either fails the run ends with
\* status 1, no task submitted, no output written, and nothing happens after.
C14_ProbeBeforeTasks ==
  /\ [](futures # <<>> =>
          /\ probe.phase = "returned"
          /\ ProbeSucceeded /\ ~ProbeFailed
          /\ pageCount >= Len(futures))
  /\ [](ProbeFailed =>
          /\ pc = "exit" /\ exitStatus = 1
          /\ futures = <<>> /\ page_links = <<>>
          /\ ~output.written
          /\ probe.calls <= max_retries)
  /\ [][~ProbeFailed]_vars

C14_Witness ==
  /\ probe.phase = "returned" /\ probe.calls = 2
  /\ log[<<"err_pagecount", 0>>] = 1
  /\ pc = "exit" /\ exitStatus = 1 /\ futures = <<>>

\* --------------------------------------------------------------------- C16
\* C16: all_entries changes only in a step of the collecting loop of main,
\* by the records of one finished task that was not collected before, while
\* no task moves; a task's record list is set by the task alone, in the step
\* that finishes it, and is read by main only after that.
SameTasks(fs, gs) ==
  /\ Len(fs) = Len(gs)
  /\ \A q \in 1..Len(fs) :
       /\ fs[q].st = gs[q].st /\ fs[q].gs = gs[q].gs
       /\ fs[q].result = gs[q].result

C16_SingleWriter ==
  [][/\ all_entries' # all_entries =>
          /\ pc = "collect"
          /\ SameTasks(futures, futures')
          /\ \E p \in 1..Len(futures) :
               /\ futures[p].st = "done" /\ ~futures[p].yielded
               /\ futures'[p].yielded
               /\ all_entries' = all_entries \o futures[p].result
               /\ \A q \in 1..Len(futures) \ {p} :
                    futures'[q].yielded = futures[q].yielded
     /\ \A p \in 1..Len(futures) :
          /\ p <= Len(futures')
          /\ futures'[p].result # futures[p].result =>
               /\ futures[p].st = "running" /\ futures'[p].st = "done"
               /\ all_entries' = all_entries
               /\ \A q \in 1..Len(futures) \ {p} : futures'[q] = futures[q]
          /\ futures'[p].yielded # futures[p].yielded =>
               futures[p].st = "done" /\ futures'[p].st = "done"]_vars

C16_Witness ==
  /\ Len(futures) = 3 /\ Len(all_entries) = 2
  /\ futures[2].yielded /\ futures[2].merged = 2
  /\ futures[1].st = "running" /\ futures[3].st = "running"

\* --------------------------------------------------------------------- C19
\* C19: with gets and sleeps that end and fair scheduling every run ends, in
\* exit status 1 or with the output written, and the initial fetch and the
\* fetch of each page call scraper.get at most max_retries times.
Terminated == pc = "exit" /\ (exitStatus = 1 \/ output.written)

C19_Terminates ==
  /\ <>[]Terminated
  /\ [](/\ probe.calls <= max_retries
        /\ \A p \in 1..Len(futures) : futures[p].gs.calls <= max_retries)

C19_Witness ==
  /\ Terminated /\ output.written
  /\ probe.calls = max_retries /\ Len(futures) = 2
  /\ futures[1].gs.calls = max_retries /\ futures[1].gs.phase = "raised"
  /\ futures[2].gs.calls = max_retries /\ futures[2].gs.phase = "returned"

\* --------------------------------------------------------------------- C20
\* C20: no task ends by raising, so the collecting loop never logs "Error
\* processing" and logs "Successfully scraped" once for every page, the
\* pages whose fetch failed every attempt included; what main gets from
\* such a page is what it gets from a page without entries.
SeenByMain(p) == <<futures[p].exc, futures[p].result>>

C20_AlwaysSuccessfullyScraped ==
  \A p \in 1..Len(futures) :
    /\ ~futures[p].exc
    /\ log[<<"err_processing", p>>] = 0
    /\ log[<<"info_scraped", p>>] = (IF futures[p].yielded THEN 1 ELSE 0)
    /\ (FetchFailed(p) \/ HardFailed(p)) => SeenByMain(p) = <<FALSE, <<>>>>
    /\ (futures[p].st = "done" /\ futures[p].extracted = 0) =>
         SeenByMain(p) = <<FALSE, <<>>>>

C20_Witness ==
  /\ AllCollected /\ Len(futures) = 2
  /\ FetchFailed(1) /\ log[<<"info_scraped", 1>>] = 1
  /\ ~HardFailed(2) /\ log[<<"warn_noblock", 2>>] = 1
  /\ log[<<"info_scraped", 2>>] = 1
  /\ SeenByMain(1) = SeenByMain(2)

\* --------------------------------------------------------------------- C15
\* C15: get_page_count returns a number for every document that has a
\* pagination container, whatever its attribute and links are, or an entry
\* list with an entry; it raises only for a document with neither, and what
\* it raises is ScraperError.
HasSignal(doc) ==
  doc.pager.present \/ (doc.list.present /\ Len(doc.list.items) >= 1)

C15_RaisesOnlyScraperError ==
  fnOut # NotCalled =>
    /\ HasSignal(fnDoc) => fnOut.ok
    /\ ~fnOut.ok => (fnOut.exc = "ScraperError" /\ ~HasSignal(fnDoc))
====
